---- MODULE Spec2Model ----
(***************************************************************************)
(* Model of csv_generator.py: generate_csv(file_name, num_columns,         *)
(* num_rows).  Text is modelled as sequences of one-character strings, so  *)
(* that formatting (str(int), repr(float), CSV quoting and joining) and    *)
(* parsing (CSV splitting, integer parsing) are distinct computations.     *)
(* A file is the sequence of its lines (each written by one writerow call, *)
(* without its "\r\n" terminator).                                         *)
(***************************************************************************)
EXTENDS Integers, Sequences, FiniteSets, TLC

\* ---------------------------------------------------------------- bounds
MaxColumns == 2
MaxRows == 2

\* ------------------------------------------------------------- constants
\* random.randint(-1000000, 1000000)
IntLow == -1000000
IntHigh == 1000000
\* random.randint(5, 20)
MinTextLen == 5
MaxTextLen == 20

NoError == "none"

\* ------------------------------------------------------------------ text
Digit == <<"0", "1", "2", "3", "4", "5", "6", "7", "8", "9">>
DigitSet == {Digit[k] : k \in 1..10}
DigitChar(d) == Digit[d + 1]
DigitVal(c) == (CHOOSE k \in 1..10 : Digit[k] = c) - 1

\* string.ascii_letters
ascii_letters ==
  {"a", "b", "c", "d", "e", "f", "g", "h", "i", "j", "k", "l", "m",
   "n", "o", "p", "q", "r", "s", "t", "u", "v", "w", "x", "y", "z",
   "A", "B", "C", "D", "E", "F", "G", "H", "I", "J", "K", "L", "M",
   "N", "O", "P", "Q", "R", "S", "T", "U", "V", "W", "X", "Y", "Z"}

RECURSIVE NatToStr(_)
NatToStr(n) ==
  IF n < 10 THEN <<DigitChar(n)>>
  ELSE NatToStr(n \div 10) \o <<DigitChar(n % 10)>>

\* str(n) of a Python int
IntToStr(n) == IF n < 0 THEN <<"-">> \o NatToStr(-n) ELSE NatToStr(n)

\* f"column{i+1}" for the 0-based column index i
ColumnPrefix == <<"c", "o", "l", "u", "m", "n">>
\* variant: the index is not shifted, f"column{i}"
BaseHeaderZeroBased(i) == ColumnPrefix \o IntToStr(i)
BaseHeader(i) == ColumnPrefix \o IntToStr(i + 1)

\* column_types = ['integer', 'float', 'text']
column_types == <<"integer", "float", "text">>
TypeText(t) ==
  CASE t = "integer" -> <<"i", "n", "t", "e", "g", "e", "r">>
    [] t = "float" -> <<"f", "l", "o", "a", "t">>
    [] t = "text" -> <<"t", "e", "x", "t">>

\* f"_{column_type}"
TypeSuffix(t) == <<"_">> \o TypeText(t)

\* ---------------------------------------------------------------- values
\* Python values produced by the generators: int, float and str objects.
PyInt(n) == [t |-> "int", v |-> n]
\* A float is kept as the decimal digits of its shortest repr and its
\* decimal exponent: m = <<"1","5">>, e = 307 stands for 1.5e+307.
PyFloat(m, e) == [t |-> "float", m |-> m, e |-> e]
PyStr(s) == [t |-> "str", s |-> s]

\* The random source is sampled by its extreme outcomes: a draw d is
\* "least" or "greatest", the least or the greatest result a call can give.

\* random.randint(a, b): both ends are included.
randint(a, b, d) == IF d = "least" THEN a ELSE b

\* random.uniform(sys.float_info.min, sys.float_info.max): the low end is
\* 2.2250738585072014e-308, the high results are of the order 1e+308; every
\* result is far outside the range repr() prints without an exponent.
FloatMinDigits ==
  <<"2", "2", "2", "5", "0", "7", "3", "8", "5", "8", "5", "0", "7", "2",
    "0", "1", "4">>
uniform_min_max(d) ==
  IF d = "least" THEN PyFloat(FloatMinDigits, -308) ELSE PyFloat(<<"1">>, 308)

\* The letters a sampled text cycles through.
LetterCycle == <<"a", "Z", "m", "Q">>
\* ''.join(random.choices(string.ascii_letters, k=k))
choices_joined(k) ==
  PyStr([j \in 1..k |-> LetterCycle[((j + k) % Len(LetterCycle)) + 1]])

\* The three lambdas appended to column_generators, named by their branch.
GenInteger == "gen_integer"
GenFloat == "gen_float"
GenText == "gen_text"

\* variant: the upper end is one too large
IntegerValueWide(d) == PyInt(randint(IntLow, IntHigh + 1, d))
\* lambda: random.randint(-1000000, 1000000)
IntegerValue(d) == PyInt(randint(IntLow, IntHigh, d))

\* lambda: random.uniform(sys.float_info.min, sys.float_info.max)
FloatValue(d) == uniform_min_max(d)

\* variant: the greatest length is one too large
TextValueLong(d) == choices_joined(randint(MinTextLen, MaxTextLen + 1, d))
\* lambda: ''.join(random.choices(string.ascii_letters, k=random.randint(5, 20)))
TextValue(d) == choices_joined(randint(MinTextLen, MaxTextLen, d))

\* gen(): the value a generator returns on a draw
Call(gen, d) ==
  CASE gen = GenInteger -> IntegerValue(d)
    [] gen = GenFloat -> FloatValue(d)
    [] gen = GenText -> TextValue(d)

\* variant: the float branch appends the integer lambda
GeneratorForConfused(column_type) ==
  CASE column_type = "integer" -> GenInteger
    [] column_type = "float" -> GenInteger
    [] column_type = "text" -> GenText
\* The generator the if/elif chain appends for a drawn column type.
GeneratorFor(column_type) ==
  CASE column_type = "integer" -> GenInteger
    [] column_type = "float" -> GenFloat
    [] column_type = "text" -> GenText

\* row = [gen() for gen in column_generators]: one call of every
\* generator, in column order.  The draws of one row are sampled together:
\* all least, all greatest, or alternating from column to column.
DrawPatterns == {"least", "greatest", "alternate"}
DrawOf(pattern, j) ==
  CASE pattern = "least" -> "least"
    [] pattern = "greatest" -> "greatest"
    [] pattern = "alternate" -> IF j % 2 = 1 THEN "least" ELSE "greatest"
\* variant: the last generator is not called
RowChoicesShort(gens) ==
  {[j \in 1..(Len(gens) - 1) |-> Call(gens[j], DrawOf(pattern, j))] :
     pattern \in DrawPatterns}
RowChoices(gens) ==
  {[j \in 1..Len(gens) |-> Call(gens[j], DrawOf(pattern, j))] :
     pattern \in DrawPatterns}

\* --------------------------------------------------------- csv.writer
\* repr(x) of a Python float that prints in exponent notation
FloatRepr(f) ==
  LET mant == IF Len(f.m) = 1 THEN f.m
              ELSE <<f.m[1], ".">> \o SubSeq(f.m, 2, Len(f.m))
      mag == IF f.e < 0 THEN -f.e ELSE f.e
      ex == IF mag < 10 THEN <<"0">> \o NatToStr(mag) ELSE NatToStr(mag)
  IN mant \o <<"e", IF f.e < 0 THEN "-" ELSE "+">> \o ex

\* The text csv.writer writes for one field value: str as is, else str(x).
FieldText(x) ==
  CASE x.t = "str" -> x.s
    [] x.t = "int" -> IntToStr(x.v)
    [] x.t = "float" -> FloatRepr(x)

Delimiter == ","
QuoteChar == "\""
\* QUOTE_MINIMAL: delimiter, quotechar and the line terminator's characters
SpecialChars == {Delimiter, QuoteChar, "\r", "\n"}
NeedsQuote(s) == \E k \in 1..Len(s) : s[k] \in SpecialChars

RECURSIVE DoubleQuotes(_)
DoubleQuotes(s) ==
  IF s = <<>> THEN <<>>
  ELSE (IF Head(s) = QuoteChar THEN <<QuoteChar, QuoteChar>> ELSE <<Head(s)>>)
       \o DoubleQuotes(Tail(s))

QuoteField(s) ==
  IF NeedsQuote(s) THEN <<QuoteChar>> \o DoubleQuotes(s) \o <<QuoteChar>>
  ELSE s

RECURSIVE JoinFields(_)
JoinFields(fields) ==
  IF fields = <<>> THEN <<>>
  ELSE IF Len(fields) = 1 THEN QuoteField(fields[1])
  ELSE QuoteField(fields[1]) \o <<Delimiter>> \o JoinFields(Tail(fields))

\* The line writer.writerow(texts) hands to file.write, less its "\r\n".
\* A row of one empty field is written as "" so that it reads back as a field.
RowLine(texts) ==
  IF Len(texts) = 1 /\ texts[1] = <<>> THEN <<QuoteChar, QuoteChar>>
  ELSE JoinFields(texts)

\* writer.writerow(column_headers): the fields are already text
HeaderLine(headers) == RowLine(headers)
\* writer.writerow(row): every value is converted to text first
DataLine(rw) == RowLine([j \in 1..Len(rw) |-> FieldText(rw[j])])

\* ------------------------------------------------------------ file system
Files == {"random_data.csv", "other.csv"}
\* A file is absent, or present with its lines.
NoFile == [exists |-> FALSE, lines |-> <<>>]
FileOf(lines) == [exists |-> TRUE, lines |-> lines]
\* What a file may hold before the call: one line of earlier text.
OldContent == FileOf(<< <<"o", "l", "d">> >>)

\* variant: mode='a', an existing file keeps its lines
OpenForAppending(files, name) ==
  IF files[name].exists THEN files ELSE [files EXCEPT ![name] = FileOf(<<>>)]
\* open(file_name, mode='w', newline=''): creates the file or truncates it
OpenForWriting(files, name) == [files EXCEPT ![name] = FileOf(<<>>)]
\* file.write(line + "\r\n") through the open handle
WriteLine(files, name, line) ==
  [files EXCEPT ![name] = FileOf(Append(@.lines, line))]
\* variant: the handle is closed on the normal path only
ExitWithLeak(h, exc) == IF exc = NoError THEN "closed" ELSE h
\* with ... as file: __exit__ closes the handle, with or without an exception
ExitWith(h, exc) == "closed"

VARIABLES
  file_name, num_columns, num_rows,   \* the arguments of the call
  pc,                 \* where the call is
  i,                  \* columns typed so far (loop of line 20)
  column_headers, column_generators,
  fs,                 \* file name -> NoFile or FileOf(the file's lines)
  handle,             \* "none", "open" or "closed"
  n,                  \* data rows written so far (loop of line 33)
  row,                \* the row generated last (line 34)
  error,              \* the exception raised, NoError if none
  fs0,                \* history: the file system when the call began
  drawn,              \* history: the column types drawn, in order
  calls               \* history: number of open and writerow calls made

vars == <<file_name, num_columns, num_rows, pc, i, column_headers,
          column_generators, fs, handle, n, row, error, fs0, drawn, calls>>

args == <<file_name, num_columns, num_rows>>

\* range(k) as the set of its values: empty when k <= 0
range(k) == 0..(k - 1)

\* variant: one pass too many
MoreRowsOffByOne == n \in range(num_rows + 1)
\* for _ in range(num_rows): another pass follows
MoreRows == n \in range(num_rows)

\* variant: a failure inside the with block is swallowed and the loop goes on
RaiseSwallowed(inWith) == IF inWith THEN "rows" ELSE "raised"
\* Where control goes when a call raises: inside the with block the block
\* is left through __exit__, outside it the call ends at once.
Raise(inWith) == IF inWith THEN "unwind" ELSE "raised"

Init ==
  /\ file_name \in Files
  /\ num_columns \in -1..MaxColumns
  /\ num_rows \in -1..MaxRows
  /\ fs \in {f \in [Files -> {NoFile, OldContent}] :
               \A name \in Files \ {file_name} : f[name] = OldContent}
  /\ fs0 = fs
  /\ pc = "columns"
  /\ i = 0
  \* column_headers = [f"column{i+1}" for i in range(num_columns)]
  /\ column_headers = [k \in 1..Cardinality(range(num_columns)) |-> BaseHeader(k - 1)]
  /\ column_generators = <<>>
  /\ handle = "none"
  /\ n = 0
  /\ row = <<>>
  /\ error = NoError
  /\ drawn = <<>>
  /\ calls = 0

\* One pass of the loop of lines 20-28.
TypeColumn ==
  /\ pc = "columns"
  /\ i \in range(num_columns)
  /\ \E k \in 1..Len(column_types) :
       LET column_type == column_types[k] IN
         /\ column_headers' = [column_headers EXCEPT ![i + 1] = @ \o TypeSuffix(column_type)]
         /\ column_generators' = Append(column_generators, GeneratorFor(column_type))
         /\ drawn' = Append(drawn, column_type)
  /\ i' = i + 1
  /\ UNCHANGED <<args, pc, fs, handle, n, row, error, fs0, calls>>

\* Line 30: open() after the column loop; it may raise OSError.
Open ==
  /\ pc = "columns"
  /\ i \notin range(num_columns)
  /\ calls' = calls + 1
  /\ \E ok \in BOOLEAN :
       IF ok
       THEN /\ fs' = OpenForWriting(fs, file_name)
            /\ handle' = "open"
            /\ pc' = "header"
            /\ error' = error
       ELSE /\ error' = "OSError"
            /\ pc' = Raise(FALSE)
            /\ UNCHANGED <<fs, handle>>
  /\ UNCHANGED <<args, i, column_headers, column_generators, n, row, fs0, drawn>>

\* Lines 31-32: writer.writerow(column_headers); the write may raise.
WriteHeader ==
  /\ pc = "header"
  /\ calls' = calls + 1
  /\ \E ok \in BOOLEAN :
       IF ok
       THEN /\ fs' = WriteLine(fs, file_name, HeaderLine(column_headers))
            /\ pc' = "rows"
            /\ error' = error
       ELSE /\ error' = "OSError"
            /\ pc' = Raise(TRUE)
            /\ fs' = fs
  /\ UNCHANGED <<args, i, column_headers, column_generators, handle, n, row, fs0, drawn>>

\* Lines 33-35: one pass of the row loop.
WriteRow ==
  /\ pc = "rows"
  /\ MoreRows
  /\ calls' = calls + 1
  /\ \E rw \in RowChoices(column_generators) :
       /\ row' = rw
       /\ \E ok \in BOOLEAN :
            IF ok
            THEN /\ fs' = WriteLine(fs, file_name, DataLine(rw))
                 /\ n' = n + 1
                 /\ UNCHANGED <<pc, error>>
            ELSE /\ error' = "OSError"
                 /\ pc' = Raise(TRUE)
                 /\ UNCHANGED <<fs, n>>
  /\ UNCHANGED <<args, i, column_headers, column_generators, handle, fs0, drawn>>

\* The end of the with block after the last row: close, then return.
\* Closing flushes, which may raise; the handle is released either way.
Return ==
  /\ pc = "rows"
  /\ ~MoreRows
  /\ handle' = ExitWith(handle, error)
  /\ \E ok \in BOOLEAN :
       IF ok THEN pc' = "returned" /\ error' = error
       ELSE pc' = "raised" /\ error' = "OSError"
  /\ UNCHANGED <<args, i, column_headers, column_generators, fs, n, row, fs0, drawn, calls>>

\* The with block left by an exception: close, then the exception goes on.
Unwind ==
  /\ pc = "unwind"
  /\ handle' = ExitWith(handle, error)
  /\ pc' = "raised"
  /\ UNCHANGED <<args, i, column_headers, column_generators, fs, n, row, error, fs0, drawn, calls>>

Next == TypeColumn \/ Open \/ WriteHeader \/ WriteRow \/ Return \/ Unwind

Spec == Init /\ [][Next]_vars

\* ------------------------------------------------------- reading the file
\* csv.reader on one line: k is the next position, cur the field so far,
\* inq whether the scan is inside quotes, acc the fields completed.
RECURSIVE Scan(_, _, _, _, _)
Scan(line, k, cur, inq, acc) ==
  IF k > Len(line) THEN Append(acc, cur)
  ELSE LET c == line[k] IN
    IF inq
    THEN IF c = QuoteChar
         THEN IF k < Len(line) /\ line[k + 1] = QuoteChar
              THEN Scan(line, k + 2, Append(cur, QuoteChar), TRUE, acc)
              ELSE Scan(line, k + 1, cur, FALSE, acc)
         ELSE Scan(line, k + 1, Append(cur, c), TRUE, acc)
    ELSE IF c = Delimiter THEN Scan(line, k + 1, <<>>, FALSE, Append(acc, cur))
    ELSE IF c = QuoteChar /\ cur = <<>> THEN Scan(line, k + 1, cur, TRUE, acc)
    ELSE Scan(line, k + 1, Append(cur, c), FALSE, acc)

\* The fields of a line; an empty line holds no field.
ReadFields(line) == IF line = <<>> THEN <<>> ELSE Scan(line, 1, <<>>, FALSE, <<>>)

IsDigits(s) == Len(s) >= 1 /\ \A k \in 1..Len(s) : s[k] \in DigitSet
Unsigned(s) == IF s # <<>> /\ s[1] = "-" THEN Tail(s) ELSE s
IsIntegerText(s) == IsDigits(Unsigned(s))

RECURSIVE ParseNat(_)
ParseNat(s) ==
  IF Len(s) = 1 THEN DigitVal(s[1])
  ELSE ParseNat(SubSeq(s, 1, Len(s) - 1)) * 10 + DigitVal(s[Len(s)])
ParseInt(s) == IF s[1] = "-" THEN -ParseNat(Tail(s)) ELSE ParseNat(s)

\* First position of c in s, 0 if there is none.
Pos(s, c) ==
  IF \E k \in 1..Len(s) : s[k] = c
  THEN CHOOSE k \in 1..Len(s) : s[k] = c /\ \A j \in 1..(k - 1) : s[j] # c
  ELSE 0
Count(s, c) == Cardinality({k \in 1..Len(s) : s[k] = c})

IsDecimal(s) ==
  LET u == Unsigned(s)
      d == Pos(u, ".")
  IN IF d = 0 THEN IsDigits(u)
     ELSE IsDigits(SubSeq(u, 1, d - 1)) /\ IsDigits(SubSeq(u, d + 1, Len(u)))
IsExponent(s) == IsDigits(IF s # <<>> /\ s[1] \in {"+", "-"} THEN Tail(s) ELSE s)
ParsesAsFloat(s) ==
  LET e == Pos(s, "e")
  IN IF e = 0 THEN IsDecimal(s)
     ELSE IsDecimal(SubSeq(s, 1, e - 1)) /\ IsExponent(SubSeq(s, e + 1, Len(s)))
\* A float's text: a float literal that is not an integer literal.
IsFloatText(s) == ParsesAsFloat(s) /\ ~IsIntegerText(s)

IsLetters(s) == \A k \in 1..Len(s) : s[k] \in ascii_letters
IsText(s) == IsLetters(s) /\ Len(s) >= MinTextLen /\ Len(s) <= MaxTextLen

TypeNames == {column_types[k] : k \in 1..Len(column_types)}

\* h reads column<idx>_<t>: the prefix, idx in decimal without leading zero,
\* one underscore, the type name.
IsHeaderFor(h, idx, t) ==
  LET u == Pos(h, "_") IN
    /\ Len(h) > Len(ColumnPrefix)
    /\ SubSeq(h, 1, Len(ColumnPrefix)) = ColumnPrefix
    /\ u > Len(ColumnPrefix) + 1
    /\ Count(h, "_") = 1
    /\ IsDigits(SubSeq(h, Len(ColumnPrefix) + 1, u - 1))
    /\ h[Len(ColumnPrefix) + 1] # "0"
    /\ ParseNat(SubSeq(h, Len(ColumnPrefix) + 1, u - 1)) = idx
    /\ SubSeq(h, u + 1, Len(h)) = TypeText(t)

IsHeaderField(h) ==
  /\ Len(h) > Len(ColumnPrefix)
  /\ SubSeq(h, 1, Len(ColumnPrefix)) = ColumnPrefix
  /\ \E idx \in 1..Len(h), t \in TypeNames : IsHeaderFor(h, idx, t)

\* The type the suffix of a header field names, "?" if it names none.
SuffixType(h) ==
  LET u == Pos(h, "_")
      named == {t \in TypeNames : u > 0 /\ SubSeq(h, u + 1, Len(h)) = TypeText(t)}
  IN IF named = {} THEN "?" ELSE CHOOSE t \in named : TRUE

\* A field's text has the type a header suffix names.
TextHasType(s, t) ==
  CASE t = "integer" -> IsIntegerText(s)
    [] t = "float" -> IsFloatText(s)
    [] t = "text" -> IsText(s)
    [] OTHER -> FALSE

\* A Python value has the type a header suffix names.
ValueHasType(x, t) ==
  CASE t = "integer" -> x.t = "int"
    [] t = "float" -> x.t = "float"
    [] t = "text" -> x.t = "str"
    [] OTHER -> FALSE

Target == fs[file_name]
Lines == Target.lines
\* The call opened the file and wrote the header.
HeaderWritten == handle # "none" /\ Len(Lines) >= 1
HeaderFields == ReadFields(Lines[1])
DataLines == 2..Len(Lines)
Completed == pc = "returned"
ValidArgs == num_columns > 0 /\ num_rows >= 0

\* ------------------------------------------------------------- properties

\* C1: a completed call with num_columns > 0 and num_rows >= 0 leaves a file
\* of exactly num_rows + 1 rows: the first is the header row, and the
\* num_rows rows after it are data rows (none of their fields is a header).
C1_RowCount ==
  (Completed /\ ValidArgs) =>
     /\ Target.exists
     /\ Len(Lines) = num_rows + 1
     /\ LET header == HeaderFields IN
           \A j \in 1..Len(header) : IsHeaderField(header[j])
     /\ \A k \in DataLines :
           LET fields == ReadFields(Lines[k]) IN
              \A j \in 1..Len(fields) : ~IsHeaderField(fields[j])
C1_Witness ==
  Completed /\ num_columns = 2 /\ num_rows = 2 /\ Len(Lines) = 3

\* C2: in every data row written, field j has the type the suffix of header
\* field j names, that type is the one drawn for column j before any row was
\* generated, and the row generated last holds a value of that type in
\* every column.
C2_TypesMatch ==
  HeaderWritten =>
     LET header == HeaderFields IN
        /\ \A k \in DataLines :
             LET fields == ReadFields(Lines[k]) IN
                \A j \in 1..Len(fields) :
                   LET named == SuffixType(header[j]) IN
                      TextHasType(fields[j], named) /\ named = drawn[j]
        /\ \A j \in 1..Len(row) : ValueHasType(row[j], drawn[j])
C2_Witness ==
  /\ Completed /\ num_rows >= 2 /\ Len(Lines) >= 3
  /\ num_columns >= 2 /\ drawn[1] # drawn[2]

\* C3: the header row and every data row written have exactly num_columns
\* fields, and the fields of the row written last are the texts of the
\* generated values in column order.
C3_FieldCount ==
  (HeaderWritten /\ num_columns >= 0) =>
     /\ \A k \in 1..Len(Lines) : Len(ReadFields(Lines[k])) = num_columns
     /\ (n >= 1 /\ pc \in {"rows", "returned"}) =>
           LET fields == ReadFields(Lines[n + 1]) IN
              /\ Len(fields) = Len(row)
              /\ \A j \in 1..Len(row) : fields[j] = FieldText(row[j])
C3_Witness ==
  Completed /\ num_columns = 2 /\ num_rows >= 1 /\ Len(Lines) >= 2

\* C4: once column j has been typed, its header is exactly
\* column<j>_<type> (j counted from 1) with the type drawn for it, holding
\* one underscore; the header row of the file holds the same fields.
C4_HeaderFormat ==
  /\ \A j \in 1..i : IsHeaderFor(column_headers[j], j, drawn[j])
  /\ HeaderWritten =>
        LET header == HeaderFields IN
           /\ Len(header) = Len(drawn)
           /\ \A j \in 1..Len(header) : IsHeaderFor(header[j], j, drawn[j])
C4_Witness ==
  HeaderWritten /\ num_columns = 2 /\ Len(HeaderFields) = 2 /\ drawn[2] = "float"

\* C5: every value written in a column whose header ends in _integer is an
\* integer between -1000000 and 1000000, both included.
C5_IntegerRange ==
  HeaderWritten =>
     LET header == HeaderFields IN
        \A k \in DataLines :
           LET fields == ReadFields(Lines[k]) IN
              \A j \in 1..Len(fields) :
                 SuffixType(header[j]) = "integer" =>
                    /\ IsIntegerText(fields[j])
                    /\ ParseInt(fields[j]) >= IntLow
                    /\ ParseInt(fields[j]) <= IntHigh
C5_Witness ==
  /\ HeaderWritten /\ Len(Lines) >= 3 /\ num_columns >= 1
  /\ SuffixType(HeaderFields[1]) = "integer"
  /\ ParseInt(ReadFields(Lines[2])[1]) = IntLow
  /\ ParseInt(ReadFields(Lines[3])[1]) = IntHigh

\* C6: every value written in a column whose header ends in _text is made
\* of ASCII letters only and is 5 to 20 characters long.
C6_TextShape ==
  HeaderWritten =>
     LET header == HeaderFields IN
        \A k \in DataLines :
           LET fields == ReadFields(Lines[k]) IN
              \A j \in 1..Len(fields) :
                 SuffixType(header[j]) = "text" =>
                    /\ IsLetters(fields[j])
                    /\ Len(fields[j]) >= MinTextLen
                    /\ Len(fields[j]) <= MaxTextLen
C6_Witness ==
  /\ HeaderWritten /\ Len(Lines) >= 3 /\ num_columns >= 1
  /\ SuffixType(HeaderFields[1]) = "text"
  /\ Len(ReadFields(Lines[2])[1]) = MinTextLen
  /\ Len(ReadFields(Lines[3])[1]) = MaxTextLen

\* C7: once the call has returned or raised, the file handle is not open;
\* a failure inside the with block reaches the caller with the handle closed.
C7_HandleReleased ==
  /\ pc \in {"returned", "raised"} => handle # "open"
  /\ pc = "returned" => handle = "closed"
C7_Witness ==
  pc = "raised" /\ handle = "closed" /\ n >= 1 /\ n < num_rows

\* C8: a completed call leaves at file_name only its own header and rows,
\* whatever the file held before, and at no time is another file changed.
C8_OnlyTarget ==
  /\ \A name \in Files \ {file_name} : fs[name] = fs0[name]
  /\ Completed =>
        /\ Target.exists
        /\ Len(Lines) = n + 1
        /\ Lines[1] = HeaderLine(column_headers)
        /\ \A k \in 1..Len(Lines) : \A m \in 1..Len(fs0[file_name].lines) :
              Lines[k] # fs0[file_name].lines[m]
C8_Witness ==
  Completed /\ fs0[file_name] = OldContent /\ n >= 1

\* C9: after a failure nothing more is generated or written and no call is
\* made again, and a call in which a step failed never ends as a success.
C9_AbortOnFailure ==
  /\ [](error # NoError => pc \in {"unwind", "raised"})
  /\ [][error # NoError =>
          (fs' = fs /\ row' = row /\ n' = n /\ calls' = calls /\ error' = error)]_vars
C9_Witness ==
  pc = "raised" /\ error # NoError /\ n >= 1 /\ n < num_rows

\* C10: a call with a negative num_columns or num_rows is rejected before
\* any file I/O: the file is not opened, created, truncated or written, and
\* the call does not return normally.
C10_NegativeRejected ==
  (num_columns < 0 \/ num_rows < 0) =>
     (fs = fs0 /\ handle = "none" /\ ~Completed)

====
